---- MODULE Spec2Model ----
(***************************************************************************)
(* Model of the deterministic core of autotank's simulation crate:          *)
(*   sim/src/util/math.rs         Scalar (fastnum D64) and Vec2             *)
(*   sim/src/physics/collision.rs AABB                                      *)
(*   sim/src/util/spatial.rs      SpatialHashMap                            *)
(*                                                                         *)
(* A Scalar is a decimal number.  It is represented here by the integer     *)
(* number of 1/Unit parts it holds (Unit = 1000: three decimal places).     *)
(* Every input set below is chosen so that each product and quotient the    *)
(* code computes on it is exactly representable in this form; D64, which    *)
(* carries 19 significant digits, computes the same values without          *)
(* rounding, so on these inputs the model and the code agree exactly.       *)
(***************************************************************************)
EXTENDS Integers, Sequences, FiniteSets, TLC

(***************************************************************************)
(* Bounds of the model.                                                     *)
(***************************************************************************)
\* Largest number of cells (grid_width * grid_height) of a modelled grid.
MaxCells == 4
\* Largest number of insert() calls between two clear() calls.
MaxInserts == 2
\* Object ids are 1..MaxObjectId.
MaxObjectId == 2

(***************************************************************************)
(* Scalar = D64 (math.rs:5), as an integer count of 1/Unit.                 *)
(***************************************************************************)
Unit == 1000

\* impl ConvertToScalar for u32 (math.rs:17-21); also f64 literals n.0
ToScalar(n) == n * Unit

ScalarMin(a, b) == IF a <= b THEN a ELSE b
ScalarMax(a, b) == IF a >= b THEN a ELSE b

\* D64 multiplication; exact on the model's inputs.  (a * b) \div Unit, with
\* the whole units of a multiplied apart so that no intermediate value
\* leaves the integers of the model checker.
ScalarMul(a, b) == (a \div Unit) * b + ((a % Unit) * b) \div Unit

\* (a * Unit) \div b for b > 0, with the whole quotient taken apart.
DivUnits(a, b) == (a \div b) * Unit + ((a % b) * Unit) \div b

\* D64 division by a nonzero divisor; exact on the model's inputs.
\* (\div needs a positive divisor, so the sign is moved to the dividend.)
ScalarDiv(a, b) == IF b > 0 THEN DivUnits(a, b) ELSE DivUnits(0 - a, 0 - b)

RECURSIVE GCD(_, _)
GCD(a, b) == IF b = 0 THEN a ELSE GCD(b, a % b)

\* Whether a / b has an exact representation with Unit parts: b divides
\* a * Unit, that is b / gcd(b, Unit) divides a.
ExactDiv(a, b) ==
    b # 0 /\ LET d == IF b > 0 THEN b ELSE 0 - b
             IN a % (d \div GCD(d, Unit)) = 0
\* Whether a * b has an exact representation with Unit parts.
ExactMul(a, b) == ((a % Unit) * b) % Unit = 0

\* D64::floor
ScalarFloor(a) == (a \div Unit) * Unit

\* .to_u32().unwrap_or(0) of an integral Scalar (spatial.rs:49-50): a negative
\* value has no u32 and becomes 0.  (No modelled value exceeds u32::MAX.)
ToU32OrZero(a) == IF a < 0 THEN 0 ELSE a \div Unit

\* Largest r with r * r <= n, by bisection on lo..hi (lo * lo <= n).
RECURSIVE ISqrt(_, _, _)
ISqrt(n, lo, hi) ==
    IF lo >= hi THEN lo
    ELSE LET mid == (lo + hi + 1) \div 2
         IN IF mid * mid <= n THEN ISqrt(n, mid, hi) ELSE ISqrt(n, lo, mid - 1)

\* D64::sqrt of a non-negative Scalar (exact when ExactSqrt holds).
ScalarSqrt(a) == ISqrt(a * Unit, 0, IF a * Unit < 46340 THEN a * Unit ELSE 46340)
ExactSqrt(a) == a >= 0 /\ ScalarSqrt(a) * ScalarSqrt(a) = a * Unit

(***************************************************************************)
(* u32 (grid_width, grid_height, the cell indices and the keys).  A u32     *)
(* value v is held as the integer v when v < 2^31 and as v - 2^32 when      *)
(* v >= 2^31, the integers of the model checker being 32 bits wide.         *)
(***************************************************************************)
\* The i-th base-256 digit (i = 0..3) of a u32.
Byte(n, i) == (n \div (<<1, 256, 65536, 16777216>>)[i + 1]) % 256

\* The product of digit i of y and digit k - i of w, where there is one.
DigitProduct(y, w, i, k) ==
    IF k - i >= 0 /\ k - i <= 3 THEN Byte(y, i) * Byte(w, k - i) ELSE 0

\* The base-256 digits k..7 of x + y * w, computed in full (64 bits).
RECURSIVE Digits(_, _, _, _, _)
Digits(x, y, w, k, carry) ==
    IF k > 7 THEN << >>
    ELSE LET sum == (IF k <= 3 THEN Byte(x, k) ELSE 0)
                    + DigitProduct(y, w, 0, k) + DigitProduct(y, w, 1, k)
                    + DigitProduct(y, w, 2, k) + DigitProduct(y, w, 3, k) + carry
         IN <<sum % 256>> \o Digits(x, y, w, k + 1, sum \div 256)

\* x + y * w on u32 (spatial.rs:34 with x = 0, spatial.rs:73): whether the
\* multiplication or the addition overflows, and the result modulo 2^32.
\* Small operands need no digits.
MulAddU32(x, y, w) ==
    IF 0 <= x /\ x < 1073741824 /\ 0 <= y /\ y < 32768 /\ 0 <= w /\ w < 32768
    THEN [overflow |-> FALSE, val |-> x + y * w]
    ELSE LET d == Digits(x, y, w, 0, 0)
         IN [overflow |-> d[5] # 0 \/ d[6] # 0 \/ d[7] # 0 \/ d[8] # 0,
             val |-> d[1] + 256 * d[2] + 65536 * d[3]
                     + 16777216 * (IF d[4] >= 128 THEN d[4] - 256 ELSE d[4])]

(***************************************************************************)
(* The build.  Two things the source leaves to the build decide what a      *)
(* degenerate computation does:                                             *)
(*   overflow_checks  rustc's integer overflow checks: on (debug profile)   *)
(*                    a u32 operation that overflows panics, off (release   *)
(*                    profile) it wraps modulo 2^32;                        *)
(*   div_traps        whether the decimal context of D64 traps a division   *)
(*                    by zero (a panic) or returns a non-finite value;      *)
(*   overflow_traps   whether the decimal context of D64 traps a result     *)
(*                    beyond its largest finite value (a panic) or returns  *)
(*                    infinity.                                             *)
(***************************************************************************)
Builds == [overflow_checks : BOOLEAN, div_traps : BOOLEAN, overflow_traps : BOOLEAN]

\* cargo's dev profile with the trapping decimal context.
DebugBuild == [overflow_checks |-> TRUE, div_traps |-> TRUE, overflow_traps |-> TRUE]

\* The non-finite value (infinity or not-a-number) of D64.
NonFinite == "non_finite"

(***************************************************************************)
(* Vec2 (math.rs:23-94)                                                     *)
(***************************************************************************)
Vec2New(x, y) == [x |-> x, y |-> y]

Dot(a, b) == ScalarMul(a.x, b.x) + ScalarMul(a.y, b.y)

LengthSquared(v) == Dot(v, v)

\* Vec2::normalize (math.rs:85-88).  The result type is Vec2: there is no
\* error value.  With a zero length both divisions divide by zero, which the
\* code does not test for: the build decides between a panic and a vector of
\* non-finite components.
Normalize(v, b) ==
    LET length == ScalarSqrt(LengthSquared(v))
    IN IF length = 0
       THEN IF b.div_traps
            THEN [kind |-> "panic"]
            ELSE [kind |-> "vec", x |-> NonFinite, y |-> NonFinite]
       ELSE [kind |-> "vec", x |-> ScalarDiv(v.x, length), y |-> ScalarDiv(v.y, length)]

\* The inputs on which normalize computes exactly in the model.
ExactNormalize(v) ==
    /\ ExactMul(v.x, v.x) /\ ExactMul(v.y, v.y)
    /\ ExactSqrt(LengthSquared(v))
    /\ LET length == ScalarSqrt(LengthSquared(v))
       IN length # 0 => ExactDiv(v.x, length) /\ ExactDiv(v.y, length)

\* D64 is a 64-bit decimal: a coefficient times a power of ten whose exponent
\* is a 16-bit integer.  ExpMax is the largest exponent of a finite D64.
ExpMax == 32767

\* Whether the squared length of the vector (v.x * 10^scale, v.y * 10^scale)
\* is beyond the largest finite D64: the square of a nonzero component has
\* the exponent 2 * scale.
LengthSquaredOverflows(v, scale) ==
    (v.x # 0 \/ v.y # 0) /\ 2 * scale > ExpMax

\* Vec2::normalize (math.rs:85-88) of the vector (v.x * 10^scale,
\* v.y * 10^scale).  A power of ten scales the decimal coefficients of the
\* products, the root and the quotients without changing them, so within
\* D64's range the result is that of v.  When self.x * self.x or
\* self.y * self.y overflows, the build decides between a panic and an
\* infinite squared length; the root of infinity is infinity and a finite
\* component divided by infinity is zero.
NormalizeScaled(v, scale, b) ==
    IF LengthSquaredOverflows(v, scale)
    THEN IF b.overflow_traps
         THEN [kind |-> "panic"]
         ELSE [kind |-> "vec", x |-> 0, y |-> 0]
    ELSE Normalize(v, b)

(***************************************************************************)
(* AABB (collision.rs:5-28)                                                 *)
(***************************************************************************)
\* A plausible slip: the arguments taken as given, first as min, second as max.
AABBNew_unordered(min, max) == [min |-> Vec2New(min.x, min.y), max |-> Vec2New(max.x, max.y)]

\* AABB::new (collision.rs:14-19)
AABBNew(min, max) ==
    [min |-> Vec2New(ScalarMin(min.x, max.x), ScalarMin(min.y, max.y)),
     max |-> Vec2New(ScalarMax(min.x, max.x), ScalarMax(min.y, max.y))]

\* AABB::new_from_size (collision.rs:22-27)
AABBNewFromSize(center, size) ==
    [min |-> Vec2New(center.x - ScalarDiv(size.x, ToScalar(2)),
                     center.y - ScalarDiv(size.y, ToScalar(2))),
     max |-> Vec2New(center.x + ScalarDiv(size.x, ToScalar(2)),
                     center.y + ScalarDiv(size.y, ToScalar(2)))]

(***************************************************************************)
(* SpatialHashMap (spatial.rs:8-109)                                        *)
(***************************************************************************)
\* One axis of SpatialHashMap::new (spatial.rs:22,29 for x; 23,31 for y):
\* cell size = map dimension / cell count, and its inverse.  With a cell
\* count of zero the first division divides by zero: the build decides
\* between a panic and a non-finite cell size, whose inverse 1/infinity is 0.
\* (A map dimension of zero is outside the modelled inputs.)
CellSize(map_dim, count, b) ==
    IF count = 0
    THEN IF b.div_traps
         THEN [panic |-> TRUE, cell |-> NonFinite, inv |-> NonFinite]
         ELSE [panic |-> FALSE, cell |-> NonFinite, inv |-> 0]
    ELSE LET cell == ScalarDiv(map_dim, ToScalar(count))
         IN [panic |-> FALSE, cell |-> cell, inv |-> ScalarDiv(ToScalar(1), cell)]

\* SpatialHashMap::new (spatial.rs:21-36): the struct, or a panic.  The grid
\* has (grid_width * grid_height) as usize cells, a u32 multiplication: when
\* it overflows, the call panics under overflow checks and otherwise the
\* grid has the product modulo 2^32 cells.
New(map_width, map_height, grid_width, grid_height, b) ==
    LET w == CellSize(map_width, grid_width, b)
        h == CellSize(map_height, grid_height, b)
        cells == MulAddU32(0, grid_width, grid_height)
    IN [panic |-> w.panic \/ h.panic \/ (cells.overflow /\ b.overflow_checks),
        shm |-> [map_width |-> map_width,
                 map_height |-> map_height,
                 cell_width |-> w.cell,
                 inv_cell_width |-> w.inv,
                 cell_height |-> h.cell,
                 inv_cell_height |-> h.inv,
                 grid_width |-> grid_width,
                 grid_height |-> grid_height,
                 grid |-> [i \in 1..cells.val |-> {}]]]

\* A plausible slip: the bounds of the clamp given in the wrong order.
CoordClamp_swapped(v, map_dim) ==
    [panic |-> map_dim > 0,
     val |-> IF v < map_dim THEN map_dim ELSE IF v > 0 THEN 0 ELSE v]

\* A plausible slip: a hand-written clamp returning the opposite bound.
CoordClamp_flipped(v, map_dim) ==
    [panic |-> 0 > map_dim,
     val |-> IF v < 0 THEN map_dim ELSE IF v > map_dim THEN 0 ELSE v]

\* coordinate.clamp(0, map dimension) (spatial.rs:41-44).  clamp panics when
\* its lower bound exceeds its upper bound.
CoordClamp(v, map_dim) ==
    [panic |-> 0 > map_dim,
     val |-> IF v < 0 THEN 0 ELSE IF v > map_dim THEN map_dim ELSE v]

\* index.clamp(0, count - 1) on u32 (spatial.rs:51,56,61,66).  With count = 0
\* the subtraction overflows: a panic under overflow checks, otherwise the
\* bound wraps to u32::MAX, which is above every index, so the clamp changes
\* nothing.
IndexClamp(raw, count, b) ==
    IF count = 0
    THEN [panic |-> b.overflow_checks, idx |-> raw]
    ELSE [panic |-> FALSE, idx |-> IF raw > count - 1 THEN count - 1 ELSE raw]

\* (clamped coordinate * inverse cell size).floor().to_u32().unwrap_or(0)
\* .clamp(0, count - 1) (spatial.rs:47-66, one of the four indices)
CellIndex(coord, inv, count, b) ==
    IndexClamp(ToU32OrZero(ScalarFloor(ScalarMul(coord, inv))), count, b)

\* (min_y_idx..=max_y_idx).flat_map(|y| (min_x_idx..=max_x_idx).map(|x| x + y *
\* grid_width)) (spatial.rs:72-73), as the sequence the iterator produces.
\* x + y * grid_width is u32 arithmetic, done when the iterator is advanced:
\* a key that overflows wraps modulo 2^32, or, under overflow checks, panics
\* after the keys before it have been produced.  (The keys grow along the
\* iteration, so some key overflows exactly when the last one does.)
RowMajor(min_x_idx, max_x_idx, min_y_idx, max_y_idx, grid_width, b) ==
    IF max_x_idx < min_x_idx \/ max_y_idx < min_y_idx
    THEN [panic |-> FALSE, keys |-> << >>]
    ELSE LET w == max_x_idx - min_x_idx + 1
             h == max_y_idx - min_y_idx + 1
             key(i) == MulAddU32(min_x_idx + ((i - 1) % w),
                                 min_y_idx + ((i - 1) \div w), grid_width)
         IN IF b.overflow_checks /\ key(w * h).overflow
            THEN LET first == CHOOSE i \in 1..(w * h) :
                                  key(i).overflow /\ \A j \in 1..(i - 1) : ~key(j).overflow
                 IN [panic |-> TRUE, keys |-> [i \in 1..(first - 1) |-> key(i).val]]
            ELSE [panic |-> FALSE, keys |-> [i \in 1..(w * h) |-> key(i).val]]

\* SpatialHashMap::keys_iter (spatial.rs:39-74): the keys in iteration order,
\* or a panic.  The clamps and the indices are computed when keys_iter is
\* called, before the iterator is returned: a panic there leaves no key
\* produced.
KeysIter(m, aabb, b) ==
    LET min_x == CoordClamp(aabb.min.x, m.map_width)
        min_y == CoordClamp(aabb.min.y, m.map_height)
        max_x == CoordClamp(aabb.max.x, m.map_width)
        max_y == CoordClamp(aabb.max.y, m.map_height)
        min_x_idx == CellIndex(min_x.val, m.inv_cell_width, m.grid_width, b)
        min_y_idx == CellIndex(min_y.val, m.inv_cell_height, m.grid_height, b)
        max_x_idx == CellIndex(max_x.val, m.inv_cell_width, m.grid_width, b)
        max_y_idx == CellIndex(max_y.val, m.inv_cell_height, m.grid_height, b)
    IN IF min_x.panic \/ min_y.panic \/ max_x.panic \/ max_y.panic
       THEN [panic |-> TRUE, keys |-> << >>]
       ELSE IF min_x_idx.panic \/ min_y_idx.panic \/ max_x_idx.panic \/ max_y_idx.panic
       THEN [panic |-> TRUE, keys |-> << >>]
       ELSE RowMajor(min_x_idx.idx, max_x_idx.idx,
                     min_y_idx.idx, max_y_idx.idx, m.grid_width, b)

\* if let Some(cell) = self.grid.get_mut(key) { cell.insert(object_id) }
\* (spatial.rs:79-81)
CellInsert(g, key, object_id) ==
    IF 0 <= key /\ key < Len(g) THEN [g EXCEPT ![key + 1] = @ \cup {object_id}] ELSE g

\* The loop of SpatialHashMap::insert (spatial.rs:78-82) from the i-th key on.
RECURSIVE InsertKeys(_, _, _, _)
InsertKeys(g, keys, i, object_id) ==
    IF i > Len(keys) THEN g
    ELSE InsertKeys(CellInsert(g, keys[i], object_id), keys, i + 1, object_id)

\* A plausible slip: indexing without the bounds check wraps around.
Get_unchecked(m, key) ==
    IF Len(m.grid) = 0 THEN {} ELSE m.grid[(key % Len(m.grid)) + 1]

\* SpatialHashMap::get (spatial.rs:86-88)
Get(m, key) == IF 0 <= key /\ key < Len(m.grid) THEN m.grid[key + 1] ELSE {}

\* A plausible slip: the result is replaced by each cell instead of extended.
QueryExtend_replace(result, g, key) ==
    IF 0 <= key /\ key < Len(g) THEN g[key + 1] ELSE result

\* if let Some(cell) = self.grid.get(key) { result.extend(cell) }
\* (spatial.rs:95-97)
QueryExtend(result, g, key) ==
    IF 0 <= key /\ key < Len(g) THEN result \cup g[key + 1] ELSE result

\* The loop of SpatialHashMap::query (spatial.rs:94-98) from the i-th key on.
RECURSIVE QueryKeys(_, _, _, _)
QueryKeys(result, g, keys, i) ==
    IF i > Len(keys) THEN result
    ELSE QueryKeys(QueryExtend(result, g, keys[i]), g, keys, i + 1)

\* SpatialHashMap::query (spatial.rs:91-101): the set returned, or a panic
\* (which returns nothing).
Query(m, aabb, b) ==
    LET r == KeysIter(m, aabb, b)
    IN IF r.panic THEN [panic |-> TRUE, ids |-> {}]
       ELSE [panic |-> FALSE, ids |-> QueryKeys({}, m.grid, r.keys, 1)]

\* A plausible slip: the loop starts after the first cell.
ClearCells_skip_first(g) == [i \in 1..Len(g) |-> IF i > 1 THEN {} ELSE g[i]]

\* A plausible slip: the loop stops before the last cell.
ClearCells_short(g) == [i \in 1..Len(g) |-> IF i < Len(g) THEN {} ELSE g[i]]

\* SpatialHashMap::clear (spatial.rs:104-108)
ClearCells(g) == [i \in 1..Len(g) |-> {}]

(***************************************************************************)
(* Inputs.                                                                  *)
(***************************************************************************)
ObjectIds == 1..MaxObjectId

\* Coordinates of AABB corners: below the map, inside it, on cell boundaries,
\* on the map's max and beyond it.
Coords == {ToScalar(0 - 5), ToScalar(5), ToScalar(10), ToScalar(20), ToScalar(25)}

Corners == {Vec2New(x, y) : x \in Coords, y \in Coords}

\* The AABBs callers build with AABB::new (spatial.rs:120-125), given to
\* keys_iter.
AABBs == {AABBNew(a, b) : a \in Corners, b \in Corners}

\* insert and query read their AABB only through keys_iter.  They are given
\* the AABBs with corners below the map, inside it and beyond it.
GridCoords == {ToScalar(0 - 5), ToScalar(10), ToScalar(25)}
GridCorners == {Vec2New(x, y) : x \in GridCoords, y \in GridCoords}
GridAABBs == {AABBNew(a, b) : a \in GridCorners, b \in GridCorners}

\* Map dimensions of a well-formed map, and of any map.
MapDims == {ToScalar(20)}
AnyMapDims == {ToScalar(0 - 20), ToScalar(20)}

\* Cell counts whose products do not fit u32: 65536 * 65536 = 2^32 and
\* 53300 * 80581 = 2^32 + 4.  The maps that go with them have cells of size 10.
WideCounts == {65536, 53300, 80581}
WideMapDims == {ToScalar(10 * n) : n \in WideCounts}

\* The point AABB on the map's max corner.
CornerAABB(m) ==
    AABBNew(Vec2New(m.map_width, m.map_height), Vec2New(m.map_width, m.map_height))

\* Keys passed to get: every cell of the largest grid and one key beyond it
\* (a smaller grid has more keys beyond it).
Keys == 0..MaxCells

\* Components of the vectors given to the Vec2 and AABB functions.
VecCoords == {ToScalar(0 - 4), ToScalar(0 - 3), ToScalar(0), ToScalar(3), ToScalar(4)}
Vecs == {Vec2New(x, y) : x \in VecCoords, y \in VecCoords}

\* Decimal exponents by which the vectors given to normalize are scaled:
\* ordinary magnitudes, and magnitudes whose square is beyond D64's range.
Scales == {0, 20000}

\* The cell size of an axis, its inverse and every product coordinate *
\* inverse are exact with Unit parts (so D64 computes them without rounding).
Representable(map_dim, count) ==
    count = 0 \/
    (/\ ExactDiv(map_dim, ToScalar(count))
     /\ ExactDiv(ToScalar(1), ScalarDiv(map_dim, ToScalar(count)))
     /\ \A c \in Coords \cup {map_dim} :
            ExactMul(c, ScalarDiv(ToScalar(1), ScalarDiv(map_dim, ToScalar(count)))))

\* Some coordinate of the AABB lies outside the map.
OutOfBounds(m, aabb) ==
    \/ aabb.min.x < 0 \/ aabb.max.x > m.map_width
    \/ aabb.min.y < 0 \/ aabb.max.y > m.map_height

(***************************************************************************)
(* State.                                                                   *)
(*   shm     the SpatialHashMap                                             *)
(*   build   the build that runs it                                         *)
(*   status  "ok", or "panic" once a call has panicked (the thread unwinds) *)
(*   last    the last call: its name and the key given to get               *)
(*   result  the set returned by the last get or query                      *)
(*   owed    history: the pairs <<key, id>> for which an insert(id, aabb)   *)
(*           since the last clear had key in keys_iter(aabb)                *)
(*   hist    history: inserts since the last clear; whether the grid was    *)
(*           cleared and not inserted into since; whether the last clear    *)
(*           removed anything (remembered until the second insert after it) *)
(*   calc    the last application of a pure function and its result         *)
(***************************************************************************)
VARIABLES shm, build, status, last, result, owed, hist, calc

vars == <<shm, build, status, last, result, owed, hist, calc>>

NoCall == [op |-> "new", key |-> 0]
NoHist == [inserts |-> 0, cleared |-> FALSE, dropped |-> FALSE]
NoCalc == [op |-> "none"]

\* The state after SpatialHashMap::new(map_width, map_height, grid_width,
\* grid_height) under build b.
Constructed(map_width, map_height, grid_width, grid_height, b) ==
    LET r == New(map_width, map_height, grid_width, grid_height, b)
    IN /\ shm = r.shm
       /\ build = b
       /\ status = (IF r.panic THEN "panic" ELSE "ok")
       /\ last = NoCall
       /\ result = {}
       /\ owed = {}
       /\ hist = NoHist
       /\ calc = NoCalc

\* The number of cells new allocates is within the model's bound.
CellsWithinBound(grid_width, grid_height) ==
    LET cells == MulAddU32(0, grid_width, grid_height).val
    IN 0 <= cells /\ cells <= MaxCells

\* Well-formed grids of at most MaxCells cells by count: a positive map and
\* at least one cell per axis.  On such a grid no call divides by zero or
\* overflows, so the build is never consulted (CellSize and IndexClamp read
\* it only for a cell count of zero, New and RowMajor only for products
\* beyond u32): one build stands for all.
Init ==
    \E map_width \in MapDims, map_height \in MapDims,
       grid_width \in 1..MaxCells, grid_height \in 1..MaxCells, b \in {DebugBuild} :
        /\ CellsWithinBound(grid_width, grid_height)
        /\ Representable(map_width, grid_width)
        /\ Representable(map_height, grid_height)
        /\ Constructed(map_width, map_height, grid_width, grid_height, b)

\* Any grid SpatialHashMap::new accepts: any map dimensions and cell counts,
\* those whose product overflows u32 included.
InitAny ==
    \E map_width \in AnyMapDims \cup WideMapDims,
       map_height \in AnyMapDims \cup WideMapDims,
       grid_width \in (0..MaxCells) \cup WideCounts,
       grid_height \in (0..MaxCells) \cup WideCounts, b \in Builds :
        /\ CellsWithinBound(grid_width, grid_height)
        /\ Representable(map_width, grid_width)
        /\ Representable(map_height, grid_height)
        /\ Constructed(map_width, map_height, grid_width, grid_height, b)

\* shm.insert(object_id, &aabb).  The keys produced before a panic have been
\* inserted when it is raised.
InsertStep ==
    /\ status = "ok"
    /\ hist.inserts < MaxInserts
    /\ \E object_id \in ObjectIds, aabb \in GridAABBs :
        \E r \in {KeysIter(shm, aabb, build)} :
           /\ shm' = [shm EXCEPT !.grid = InsertKeys(shm.grid, r.keys, 1, object_id)]
           /\ status' = (IF r.panic THEN "panic" ELSE "ok")
           /\ last' = [op |-> "insert", key |-> 0]
           /\ result' = {}
           /\ owed' = owed \cup {<<r.keys[i], object_id>> : i \in 1..Len(r.keys)}
           /\ hist' = [inserts |-> hist.inserts + 1, cleared |-> FALSE,
                       dropped |-> hist.dropped /\ hist.inserts = 0]
           /\ UNCHANGED <<build, calc>>

\* shm.get(key)
GetStep ==
    /\ status = "ok"
    /\ \E key \in Keys :
        /\ result' = Get(shm, key)
        /\ last' = [op |-> "get", key |-> key]
        /\ UNCHANGED <<shm, build, status, owed, hist, calc>>

\* shm.query(&aabb)
QueryStep ==
    /\ status = "ok"
    /\ \E aabb \in GridAABBs :
        \E r \in {Query(shm, aabb, build)} :
           /\ result' = r.ids
           /\ status' = (IF r.panic THEN "panic" ELSE "ok")
           /\ last' = [op |-> "query", key |-> 0]
           /\ UNCHANGED <<shm, build, owed, hist, calc>>

\* shm.clear()
ClearStep ==
    /\ status = "ok"
    /\ shm' = [shm EXCEPT !.grid = ClearCells(shm.grid)]
    /\ last' = [op |-> "clear", key |-> 0]
    /\ result' = {}
    /\ owed' = {}
    /\ hist' = [inserts |-> 0, cleared |-> TRUE,
                dropped |-> (\E i \in 1..Len(shm.grid) : shm.grid[i] # {})]
    /\ UNCHANGED <<build, status, calc>>

\* shm.keys_iter(&aabb).collect()
KeysIterStep ==
    /\ status = "ok"
    /\ calc.op = "none"
    /\ \E aabb \in AABBs \cup {CornerAABB(shm)} :
        \E r \in {KeysIter(shm, aabb, build)} :
           /\ calc' = [op |-> "keys_iter", aabb |-> aabb, keys |-> r.keys]
           /\ status' = (IF r.panic THEN "panic" ELSE "ok")
           /\ last' = [op |-> "keys_iter", key |-> 0]
           /\ result' = {}
           /\ UNCHANGED <<shm, build, owed, hist>>

Next == InsertStep \/ GetStep \/ QueryStep \/ ClearStep

\* The per-tick use of a well-formed grid: clear, insert, query, get.
Spec == Init /\ [][Next]_vars

\* keys_iter on every well-formed grid.
SpecKeys == Init /\ [][KeysIterStep]_vars

\* shm.insert(object_id, &aabb) for any AABB callers build, the first insert
\* into the grid; the call is kept in calc.
InsertAnyStep ==
    /\ status = "ok"
    /\ calc.op = "none"
    /\ \E object_id \in ObjectIds, aabb \in AABBs :
        \E r \in {KeysIter(shm, aabb, build)} :
           /\ shm' = [shm EXCEPT !.grid = InsertKeys(shm.grid, r.keys, 1, object_id)]
           /\ status' = (IF r.panic THEN "panic" ELSE "ok")
           /\ last' = [op |-> "insert", key |-> 0]
           /\ result' = {}
           /\ owed' = owed \cup {<<r.keys[i], object_id>> : i \in 1..Len(r.keys)}
           /\ hist' = [inserts |-> hist.inserts + 1, cleared |-> FALSE,
                       dropped |-> hist.dropped /\ hist.inserts = 0]
           /\ calc' = [op |-> "insert", object_id |-> object_id, aabb |-> aabb]
           /\ UNCHANGED build

\* Whether a call panics depends on the struct's dimensions and on the AABB,
\* never on the cells' contents (get and get_mut do not panic), so the first
\* call after construction shows every outcome.
FirstCall == last.op = "new"

NextAny == FirstCall /\ (InsertStep \/ InsertAnyStep \/ QueryStep \/ KeysIterStep)

\* keys_iter, insert and query on any grid new can be asked for.
SpecAny == InitAny /\ [][NextAny]_vars

(***************************************************************************)
(* The pure functions of Vec2 and AABB, applied to every input.             *)
(***************************************************************************)
InitVec ==
    \E b \in Builds : Constructed(ToScalar(20), ToScalar(20), 1, 1, b)

\* AABB::new(a, b)
AABBNewStep ==
    /\ calc.op = "none"
    /\ \E a \in Vecs, b \in Vecs :
        /\ calc' = [op |-> "new", a |-> a, b |-> b, out |-> AABBNew(a, b)]
        /\ UNCHANGED <<shm, build, status, last, result, owed, hist>>

\* AABB::new_from_size(center, size)
AABBNewFromSizeStep ==
    /\ calc.op = "none"
    /\ \E center \in Vecs, size \in Vecs :
        /\ calc' = [op |-> "new_from_size", a |-> center, b |-> size,
                    out |-> AABBNewFromSize(center, size)]
        /\ UNCHANGED <<shm, build, status, last, result, owed, hist>>

\* Vec2::new(v.x * 10^scale, v.y * 10^scale).normalize()
NormalizeStep ==
    /\ calc.op = "none"
    /\ \E v \in Vecs, scale \in Scales :
        /\ ExactNormalize(v)
        /\ calc' = [op |-> "normalize", a |-> v, scale |-> scale,
                    out |-> NormalizeScaled(v, scale, build)]
        /\ UNCHANGED <<shm, build, status, last, result, owed, hist>>

NextVec == AABBNewStep \/ AABBNewFromSizeStep \/ NormalizeStep

SpecVec == InitVec /\ [][NextVec]_vars

(***************************************************************************)
(* Properties.                                                              *)
(***************************************************************************)
\* The set of keys of a key sequence.
KeySet(keys) == {keys[i] : i \in 1..Len(keys)}

\* A grid with at least one cell per axis over a positive map.
WellFormed(m) ==
    /\ m.grid_width >= 1 /\ m.grid_height >= 1
    /\ m.map_width > 0 /\ m.map_height > 0

\* C1 (grid membership soundness): on a grid with at least one cell per axis,
\* every id inserted with an AABB since the last clear is in get(key) for
\* every key of keys_iter(aabb), whatever insert, get and query calls followed.
\* It holds on every grid whose cell count fits u32 and fails on the others,
\* which a build without overflow checks constructs with fewer cells than
\* keys_iter has keys.
C1_MembershipSound ==
    (shm.grid_width >= 1 /\ shm.grid_height >= 1) =>
        \A p \in owed : p[2] \in Get(shm, p[1])

\* C2 (clear completeness): between a clear and the next insert, query
\* returns the empty set for every AABB and get for every key.
C2_ClearComplete ==
    hist.cleared =>
        /\ \A aabb \in AABBs :
            Query(shm, aabb, build) = [panic |-> FALSE, ids |-> {}]
        /\ \A key \in Keys : Get(shm, key) = {}

\* A clear emptied a grid that held ids, and a query was made after it.
C2_Witness ==
    hist.cleared /\ hist.dropped /\ last.op = "query"

\* C3 (keys are valid cell indices): every key keys_iter produces is the
\* index of a cell of the grid, and a coordinate at or beyond the map's max is
\* indexed into the last cell of its axis.  Stated for well-formed grids (a
\* positive map, at least one cell per axis); it fails on those whose cell
\* count overflows u32.
C3_KeysValid ==
    (calc.op = "keys_iter" /\ WellFormed(shm)) =>
        LET n == Len(calc.keys)
            gw == shm.grid_width
            gh == shm.grid_height
        IN /\ status = "ok"
           /\ \A i \in 1..n : 0 <= calc.keys[i] /\ calc.keys[i] < Len(shm.grid)
           /\ calc.aabb.max.x >= shm.map_width =>
                n > 0 /\ calc.keys[n] % gw = gw - 1
           /\ calc.aabb.max.y >= shm.map_height =>
                n > 0 /\ calc.keys[n] \div gw = gh - 1
           /\ calc.aabb.min.x >= shm.map_width =>
                \A i \in 1..n : calc.keys[i] % gw = gw - 1
           /\ calc.aabb.min.y >= shm.map_height =>
                \A i \in 1..n : calc.keys[i] \div gw = gh - 1

\* C4 as stated (out-of-bounds AABBs are never an error, on a grid built from
\* any map dimensions and any cell counts): no call of keys_iter, insert or
\* query panics.
C4_NeverPanics ==
    last.op \in {"keys_iter", "insert", "query"} => status = "ok"

\* C4 amended: on a grid built from positive map dimensions and at least one
\* cell per axis, no call of keys_iter, insert or query panics, whatever the
\* AABB's coordinates.
C4_WellFormedNeverPanics ==
    (WellFormed(shm) /\ last.op \in {"keys_iter", "insert", "query"}) => status = "ok"

\* keys_iter completed on a well-formed grid for an AABB wholly outside the
\* map on one axis and partly outside it on the other.
C4_Witness ==
    /\ WellFormed(shm)
    /\ status = "ok"
    /\ calc.op = "keys_iter"
    /\ calc.aabb.max.x < 0
    /\ calc.aabb.min.y <= shm.map_height /\ calc.aabb.max.y > shm.map_height

\* C5 (normalize of the zero vector): the call yields an explicit, checked
\* failure; it neither divides by zero unchecked (a panic raised inside the
\* division) nor returns a vector of non-finite components.
C5_ZeroNormalizeIsCheckedError ==
    (calc.op = "normalize" /\ calc.a = Vec2New(0, 0)) => calc.out.kind = "error"

\* C6 (AABB invariant): every AABB built by new or new_from_size has
\* min.x <= max.x and min.y <= max.y.
C6_ConstructedOrdered ==
    calc.op \in {"new", "new_from_size"} =>
        /\ calc.out.min.x <= calc.out.max.x
        /\ calc.out.min.y <= calc.out.max.y

\* C11 (normalization property): for every nonzero vector v the call
\* v.normalize() returns a vector of finite components whose length_squared()
\* is exactly 1.
C11_NormalizedIsUnit ==
    (calc.op = "normalize" /\ calc.a # Vec2New(0, 0)) =>
        /\ calc.out.kind = "vec"
        /\ calc.out.x \in Int /\ calc.out.y \in Int
        /\ LengthSquared(calc.out) = ToScalar(1)

\* C7 (AABB::new is order-independent): new(a, b) and new(b, a) have the same
\* min and the same max.
C7_NewCommutes ==
    calc.op = "new" =>
        /\ calc.out.min = AABBNew(calc.b, calc.a).min
        /\ calc.out.max = AABBNew(calc.b, calc.a).max

\* new was given corners that are out of order on one axis and in order on
\* the other.
C7_Witness ==
    calc.op = "new" /\ calc.a.x > calc.b.x /\ calc.a.y < calc.b.y

\* The AABB with each corner coordinate clamped to the map boundary.
ClampedToMap(m, aabb) ==
    LET cl(v, hi) == ScalarMax(0, ScalarMin(v, hi))
    IN [min |-> Vec2New(cl(aabb.min.x, m.map_width), cl(aabb.min.y, m.map_height)),
        max |-> Vec2New(cl(aabb.max.x, m.map_width), cl(aabb.max.y, m.map_height))]

\* C8 (clamp idempotence): keys_iter of an AABB wholly or partly outside the
\* map produces the key set keys_iter produces for that AABB clamped to the
\* map boundary.
C8_ClampIdempotent ==
    (calc.op = "keys_iter" /\ OutOfBounds(shm, calc.aabb)) =>
        KeySet(calc.keys) = KeySet(KeysIter(shm, ClampedToMap(shm, calc.aabb), build).keys)

\* keys_iter was given an AABB wholly outside the map on the x axis and
\* partly outside it on the y axis, on a grid of several cells per axis.
C8_Witness ==
    /\ calc.op = "keys_iter"
    /\ shm.grid_width >= 2 /\ shm.grid_height >= 2
    /\ calc.aabb.min.x > shm.map_width
    /\ calc.aabb.min.y < 0 /\ calc.aabb.max.y > 0 /\ calc.aabb.max.y < shm.map_height
    /\ Len(calc.keys) > 0

\* The cell of an axis that contains the coordinate v once clamped to the map:
\* cell i covers [i * cell size, (i + 1) * cell size) with cell size =
\* map_dim / count, and the last cell also contains map_dim.
CellOf(v, map_dim, count) ==
    LET c == ScalarMax(0, ScalarMin(v, map_dim))
        size == ScalarDiv(map_dim, ToScalar(count))
    IN IF c = map_dim THEN count - 1
       ELSE CHOOSE i \in 0..(count - 1) : i * size <= c /\ c < (i + 1) * size

\* C12 (keys_iter's rectangle): keys_iter(aabb) produces exactly the keys
\* x + y * grid_width of the cells between the cell of the clamped min corner
\* and the cell of the clamped max corner, inclusive, each once and in
\* row-major order (the keys increase along the sequence); a coordinate on an
\* interior cell boundary belongs to the higher cell, and a point AABB yields
\* exactly one key.  Stated for well-formed grids; x + y * grid_width is the
\* key produced only if it is a u32, which it is not for the last cells of a
\* grid of more than 2^32 cells.
C12_KeysAreRectangle ==
    (calc.op = "keys_iter" /\ WellFormed(shm)) =>
        LET n == Len(calc.keys)
            min_x == CellOf(calc.aabb.min.x, shm.map_width, shm.grid_width)
            max_x == CellOf(calc.aabb.max.x, shm.map_width, shm.grid_width)
            min_y == CellOf(calc.aabb.min.y, shm.map_height, shm.grid_height)
            max_y == CellOf(calc.aabb.max.y, shm.map_height, shm.grid_height)
        IN /\ \A x \in min_x..max_x, y \in min_y..max_y :
                ~MulAddU32(x, y, shm.grid_width).overflow
           /\ KeySet(calc.keys) =
                {MulAddU32(x, y, shm.grid_width).val : x \in min_x..max_x, y \in min_y..max_y}
           /\ \A i \in 1..(n - 1) : calc.keys[i] < calc.keys[i + 1]
           /\ calc.aabb.min = calc.aabb.max => n = 1

\* C13 (no stale or spurious membership): a cell holds an id only if an
\* insert of that id since the last clear (or since construction) had the
\* cell's key in keys_iter of its AABB; so a query returns no id that was
\* inserted only before the last clear, and no id whose AABBs inserted since
\* touch none of the queried cells.
C13_NoStaleMembership ==
    /\ \A key \in 0..(Len(shm.grid) - 1) :
        \A id \in Get(shm, key) : <<key, id>> \in owed
    /\ \A aabb \in GridAABBs :
        LET cells == KeySet(KeysIter(shm, aabb, build).keys)
        IN Query(shm, aabb, build).ids \subseteq {p[2] : p \in {o \in owed : o[1] \in cells}}
    /\ last.op \in {"get", "query"} => \A id \in result : \E p \in owed : p[2] = id

\* After a clear that removed ids, one id was inserted into part of a grid of
\* several cells, and a query returned that id alone.
C13_Witness ==
    /\ last.op = "query"
    /\ hist.dropped /\ hist.inserts = 1
    /\ Cardinality(result) = 1
    /\ \E i \in 1..Len(shm.grid) : shm.grid[i] = {}

\* Two AABBs intersect: on both axes each one's min is at most the other's max.
Intersects(a, b) ==
    /\ a.min.x <= b.max.x /\ b.min.x <= a.max.x
    /\ a.min.y <= b.max.y /\ b.min.y <= a.max.y

\* C14 (the broad phase has no false negatives): on a grid with at least one
\* cell per axis, from insert(k, A) until the next clear, query(B) contains k
\* for every AABB B that intersects A, also when A or B lies partly or wholly
\* outside the map.  Stated for well-formed grids; it fails on those whose
\* cell count overflows u32, where insert finds no cell for some keys.
C14_NoFalseNegatives ==
    (calc.op = "insert" /\ ~hist.cleared /\ WellFormed(shm)) =>
        \A b \in AABBs :
            Intersects(calc.aabb, b) => calc.object_id \in Query(shm, b, build).ids

\* C9 (query is the union of the overlapped cells): in every reachable grid
\* state query(aabb) is the union of get(key) over the keys of keys_iter(aabb),
\* the empty set on an empty grid, and the set a query returned is such a union.
C9_QueryIsUnion ==
    /\ \A aabb \in GridAABBs :
        LET keys == KeysIter(shm, aabb, build).keys
            q == Query(shm, aabb, build)
        IN /\ ~q.panic
           /\ q.ids = UNION {Get(shm, key) : key \in KeySet(keys)}
           /\ (\A i \in 1..Len(shm.grid) : shm.grid[i] = {}) => q.ids = {}
    /\ last.op = "query" =>
        \E aabb \in GridAABBs :
            result = UNION {Get(shm, key) : key \in KeySet(KeysIter(shm, aabb, build).keys)}

\* A query returned two ids that no single cell holds together.
C9_Witness ==
    /\ last.op = "query"
    /\ Cardinality(result) = 2
    /\ \A i \in 1..Len(shm.grid) : Cardinality(shm.grid[i]) <= 1

\* C10 (get with an invalid key): a get whose key is not below
\* grid_width * grid_height returns the empty set, does not panic and leaves
\* the grid as it was.
C10_GetInvalidKey ==
    [][(last'.op = "get" /\ last'.key >= shm.grid_width * shm.grid_height) =>
            (result' = {} /\ shm' = shm /\ status' = "ok")]_vars

\* get was called with a key beyond the last cell of a grid that holds ids.
C10_Witness ==
    /\ last.op = "get"
    /\ last.key >= shm.grid_width * shm.grid_height
    /\ owed # {}

====
